---- MODULE Spec2Model ----
(***************************************************************************)
(* A model of the karaoke melody scorer of scripts/scoring.py: the pitch   *)
(* extractor run on a worker pool, the pitch curve processor, the          *)
(* cross-correlation alignment estimator, the DTW similarity scorer, the   *)
(* reference cache and KaraokeScorer.calculate_score that wires them.      *)
(*                                                                         *)
(* Numbers.  Note values are real numbers in the code.  The model keeps    *)
(* them exactly, as integers counted in 1/35 of a semitone (Semitone       *)
(* units): 35 is the common denominator of the Savitzky-Golay weights of   *)
(* window 5 and degree 2, so smoothing a curve of whole semitones is exact.*)
(* A score is a reduced fraction [num, den].  Floating-point rounding is   *)
(* not modelled.                                                           *)
(*                                                                         *)
(* Audio.  A recording is a sequence of analysis frames; a frame carries   *)
(* what librosa reports for it: the pitch pyin tracks (hz), pyin's voiced  *)
(* flag and the frame's RMS energy.  A chunk of ChunkLen frames stands for *)
(* the code's 10-second chunk.                                             *)
(***************************************************************************)
EXTENDS Integers, Sequences, FiniteSets

\* ------------------------------------------------------------- bounds
MaxRefLen == 2
MaxPerfLen == 3
ChunkLen == 2
MaxCurveLen == 8
MaxAlignLen == 4
LongLen == 7

\* ------------------------------------------------------------ helpers
Semitone == 5 * 7

Abs(x) == IF x < 0 THEN -x ELSE x

Min2(a, b) == IF a <= b THEN a ELSE b

RECURSIVE Gcd(_, _)
Gcd(a, b) == IF b = 0 THEN a ELSE Gcd(b, a % b)

\* The fraction num/den (den > 0) in lowest terms.
Rat(num, den) ==
    LET g == Gcd(Abs(num), den)
    IN  [num |-> num \div g, den |-> den \div g]

Zero == [num |-> 0, den |-> 1]

RatLe(p, q) == p.num * q.den <= q.num * p.den

RatLt(p, q) == p.num * q.den < q.num * p.den

Percent(n) == [num |-> n, den |-> 1]

RECURSIVE SumSeq(_)
SumSeq(s) == IF s = <<>> THEN 0 ELSE Head(s) + SumSeq(Tail(s))

RECURSIVE Concat(_)
Concat(ss) == IF ss = <<>> THEN <<>> ELSE Head(ss) \o Concat(Tail(ss))

Zeros(n) == [i \in 1..n |-> 0]

\* The entries of s at the positions where keep is TRUE (numpy s[keep]).
RECURSIVE Select(_, _)
Select(s, keep) ==
    IF s = <<>> THEN <<>>
    ELSE (IF Head(keep) THEN <<Head(s)>> ELSE <<>>) \o Select(Tail(s), Tail(keep))

CountTrue(mask) == Cardinality({i \in DOMAIN mask : mask[i]})

\* All sequences over S of length lo..hi.
SeqsOf(S, lo, hi) == UNION {[1..n -> S] : n \in lo..hi}

\* ------------------------------------------- circular semitone distance
\* scoring.py:17-23.  diff = abs(a - b); min(diff, 12 - diff).
circular_semitone_distance(a, b) ==
    LET diff == Abs(a - b)
    IN  Min2(diff, 12 * Semitone - diff)

\* ------------------------------------------------------ pitch extractor
\* One analysis frame of audio, as librosa sees it.
Frame(hz, voiced, rms) == [hz |-> hz, voiced |-> voiced, rms |-> rms]

Quiet == Frame(0, FALSE, 0)
Hum == Frame(494, TRUE, 1)
SungLow == Frame(131, TRUE, 100)
SungHigh == Frame(494, TRUE, 100)

\* librosa.util.fix_length(rms, n): cut or zero-pad to n entries.
fix_length(s, n) == [i \in 1..n |-> IF i <= Len(s) THEN s[i] ELSE 0]

\* scoring.py:25-48.  pyin_ok = FALSE is librosa.pyin raising.  Returns
\* <<f0, voiced_flag>>.  rms > mean(rms) * 0.02 is kept in integers as
\* rms * 50 * len > sum(rms).
process_audio_chunk(chunk, pyin_ok) ==
    LET rms0 == [i \in DOMAIN chunk |-> chunk[i].rms]
        total == SumSeq(rms0)
        n0 == Len(rms0)
    IN  IF ~pyin_ok
        THEN <<Zeros(n0), [i \in 1..n0 |-> FALSE]>>
        ELSE LET f0 == [i \in DOMAIN chunk |->
                          IF chunk[i].voiced THEN chunk[i].hz ELSE 0]
                 voiced_flag == [i \in DOMAIN chunk |-> chunk[i].voiced]
                 rms == IF Len(rms0) # Len(f0) THEN fix_length(rms0, Len(f0)) ELSE rms0
                 energy_mask == [i \in DOMAIN rms |-> rms[i] * 50 * n0 > total]
             IN  <<[i \in DOMAIN f0 |->
                      IF energy_mask[i] /\ voiced_flag[i] THEN f0[i] ELSE 0],
                   voiced_flag>>

\* The chunks of scoring.py:356-358: audio[i:i + chunk_size] for i in
\* range(0, len(audio), chunk_size).
SplitChunks(audio, chunk_size) ==
    LET count == (Len(audio) + chunk_size - 1) \div chunk_size
    IN  [c \in 1..count |->
           SubSeq(audio, (c - 1) * chunk_size + 1,
                  Min2(c * chunk_size, Len(audio)))]

\* ------------------------------------------------ pitch curve processor
\* librosa.hz_to_midi at the equal-tempered pitches the model's audio
\* uses (named by their frequency rounded to a whole Hz): C3, A3, B3, C4,
\* F#4, A4, B4.  The result is in Semitone units.
hz_to_midi(f) ==
    Semitone * (CASE f = 131 -> 48
                  [] f = 220 -> 57
                  [] f = 247 -> 59
                  [] f = 262 -> 60
                  [] f = 370 -> 66
                  [] f = 440 -> 69
                  [] f = 494 -> 71)

\* scoring.py:180-181.
convert_to_midi(f0) == [i \in DOMAIN f0 |-> IF f0[i] > 0 THEN hz_to_midi(f0[i]) ELSE 0]

\* scoring.py:183-190.
normalize_to_octave(midi_notes) ==
    [i \in DOMAIN midi_notes |->
       IF midi_notes[i] # 0
       THEN ((midi_notes[i] - 60 * Semitone) % (12 * Semitone)) + 60 * Semitone
       ELSE 0]
\* The Savitzky-Golay projection of degree 2 on a window: row r gives the
\* weights of the fitted value at window position r.  Window 3 fits its
\* three points exactly; window 5 has the weights below over 35.
SavgolWeights(window_length) ==
    IF window_length = 3
    THEN << <<1, 0, 0>>, <<0, 1, 0>>, <<0, 0, 1>> >>
    ELSE << <<31, 9, -3, -5, 3>>,
            <<9, 13, 12, 6, -5>>,
            <<-3, 12, 17, 12, -3>>,
            <<-5, 6, 12, 13, 9>>,
            <<3, -5, -3, 9, 31>> >>

SavgolDenominator(window_length) == IF window_length = 3 THEN 1 ELSE 35

\* scipy.signal.savgol_filter(x, window_length, 2), mode 'interp': the
\* centred fit inside, and at each end the fit of the last window_length
\* points evaluated at the half-window it cannot centre.
savgol_filter(x, window_length) ==
    LET n == Len(x)
        half == window_length \div 2
        H == SavgolWeights(window_length)
        Apply(row, first) ==
            SumSeq([j \in 1..window_length |-> H[row][j] * x[first + j - 1]])
              \div SavgolDenominator(window_length)
    IN  [i \in 1..n |->
           IF i <= half THEN Apply(i, 1)
           ELSE IF i > n - half THEN Apply(window_length - (n - i), n - window_length + 1)
           ELSE Apply(half + 1, i - half)]

\* scoring.py:198-199.  np.split at np.where(np.diff(valid_indices))[0] + 1:
\* the index ranges <<first, last>> of the maximal runs on which the voiced
\* mask is constant, in order.
RECURSIVE RunsFrom(_, _)
RunsFrom(valid_indices, first) ==
    IF first > Len(valid_indices) THEN <<>>
    ELSE LET last == CHOOSE i \in first..Len(valid_indices) :
                        /\ \A j \in first..i : valid_indices[j] = valid_indices[first]
                        /\ (i = Len(valid_indices) \/ valid_indices[i + 1] # valid_indices[first])
         IN  <<<<first, last>>>> \o RunsFrom(valid_indices, last + 1)

SplitRuns_unsplit(valid_indices) == <<<<1, Len(valid_indices)>>>>

SplitRuns(valid_indices) == RunsFrom(valid_indices, 1)

\* scoring.py:202-214: what one segment contributes to smooth_curve.
SmoothSegment(seg) ==
    IF \E i \in DOMAIN seg : seg[i] # 0
    THEN IF Len(seg) >= 5
         THEN LET w0 == Min2(5, Len(seg) - 2)
                  window_length == IF w0 % 2 = 0 THEN w0 - 1 ELSE w0
              IN  IF window_length >= 3 THEN savgol_filter(seg, window_length) ELSE seg
         ELSE seg
    ELSE Zeros(Len(seg))

\* scoring.py:192-216.
get_smooth_pitch_curve(midi_notes) ==
    LET valid_indices == [i \in DOMAIN midi_notes |-> midi_notes[i] # 0]
    IN  IF \E i \in DOMAIN midi_notes : valid_indices[i]
        THEN LET runs == SplitRuns(valid_indices)
             IN  Concat([r \in DOMAIN runs |->
                           SmoothSegment(SubSeq(midi_notes, runs[r][1], runs[r][2]))])
        ELSE Zeros(Len(midi_notes))

\* ---------------------------------------------------- alignment estimator
\* numpy.fft.rfft(x, N) reads x cut or zero-padded to N entries; index k is
\* 0-based.
Padded(x, N, k) == IF k < Len(x) /\ k < N THEN x[k + 1] ELSE 0

\* irfft(F_ref * conj(F_perf), N)[k]: the circular cross-correlation
\* sum over m of ref[(m + k) mod N] * perf[m].
CircularXcorr(ref, perf, N, k) ==
    SumSeq([m1 \in 1..N |-> Padded(ref, N, (m1 - 1 + k) % N) * Padded(perf, N, m1 - 1)])

RECURSIVE PowerOfTwoFrom(_, _)
PowerOfTwoFrom(N, n) == IF N < 2 * n THEN PowerOfTwoFrom(2 * N, n) ELSE N

\* numpy.argmax: the first (0-based) index of the greatest entry.
ArgMax(s) ==
    CHOOSE i \in 0..(Len(s) - 1) :
        /\ \A j \in DOMAIN s : s[j] <= s[i + 1]
        /\ \A j \in 1..i : s[j] < s[i + 1]

\* Python's s[-c:] : the last c entries, and the whole of s when c = 0.
LastEntries(s, c) == IF c = 0 THEN s ELSE SubSeq(s, Len(s) - c + 1, Len(s))

estimate_shift_flipped(ref_curve, perf_curve) ==
    LET n == Len(ref_curve)
        N == PowerOfTwoFrom(1, n)
        full == [k1 \in 1..N |-> CircularXcorr(perf_curve, ref_curve, N, k1 - 1)]
        cc == LastEntries(full, n - 1) \o SubSeq(full, 1, n)
    IN  ArgMax(cc) - (n - 1)

estimate_shift_off_by_one(ref_curve, perf_curve) ==
    LET n == Len(ref_curve)
        N == PowerOfTwoFrom(1, n)
        full == [k1 \in 1..N |-> CircularXcorr(ref_curve, perf_curve, N, k1 - 1)]
        cc == LastEntries(full, n - 1) \o SubSeq(full, 1, n)
    IN  ArgMax(cc) - n

\* scoring.py:293-306.
estimate_shift_via_xcorr(ref_curve, perf_curve) ==
    LET n == Len(ref_curve)
        N == PowerOfTwoFrom(1, n)
        full == [k1 \in 1..N |-> CircularXcorr(ref_curve, perf_curve, N, k1 - 1)]
        cc == LastEntries(full, n - 1) \o SubSeq(full, 1, n)
    IN  ArgMax(cc) - (n - 1)

\* numpy.roll(p, s): entry i (0-based) comes from (i - s) mod len.
Roll(p, s) == [i \in DOMAIN p |-> p[((i - 1 - s) % Len(p)) + 1]]

apply_shift_roll_only(perf_midi_smooth, shift_est) ==
    LET rolled == Roll(perf_midi_smooth, shift_est)
    IN  IF shift_est > 0
        THEN [i \in DOMAIN rolled |-> IF i <= shift_est THEN 0 ELSE rolled[i]]
        ELSE rolled

\* scoring.py:387-391.  [:s] = 0 zeroes the first s entries; [s:] = 0 with
\* s < 0 zeroes from index max(len + s, 0) on.
apply_shift(perf_midi_smooth, shift_est) ==
    LET rolled == Roll(perf_midi_smooth, shift_est)
        L == Len(rolled)
    IN  IF shift_est > 0
        THEN [i \in DOMAIN rolled |-> IF i <= shift_est THEN 0 ELSE rolled[i]]
        ELSE IF shift_est < 0
        THEN [i \in DOMAIN rolled |-> IF i > L + shift_est THEN 0 ELSE rolled[i]]
        ELSE rolled
\* ------------------------------------------------------ similarity scorer
Infinity == 2 ^ 30

Min3(a, b, c) == Min2(a, Min2(b, c))

\* One row of the DTW table: cell j of row i is dist(x[i], y[j]) plus the
\* least of the cells above, to the left and diagonally above-left.  A row
\* holds columns 0..Len(y) at positions 1..Len(y)+1; left is the cell
\* already computed in column j - 1.
RECURSIVE DtwRowFrom(_, _, _, _, _)
DtwRowFrom(prev, xi, y, j, left) ==
    IF j > Len(y) THEN <<>>
    ELSE LET cell == circular_semitone_distance(xi, y[j])
                       + Min3(prev[j + 1], left, prev[j])
         IN  <<cell>> \o DtwRowFrom(prev, xi, y, j + 1, cell)

RECURSIVE DtwRows(_, _, _, _)
DtwRows(prev, x, i, y) ==
    IF i > Len(x) THEN prev
    ELSE DtwRows(<<Infinity>> \o DtwRowFrom(prev, x[i], y, 1, Infinity), x, i + 1, y)

\* fastdtw(x, y, radius=10, dist=circular_semitone_distance) on sequences
\* shorter than radius + 2 = 12 points, where fastdtw computes the exact
\* DTW distance (fastdtw.__fastdtw falls back to dtw).
fastdtw(x, y) ==
    DtwRows(<<0>> \o [j \in 1..Len(y) |-> Infinity], x, 1, y)[Len(y) + 1]

\* scoring.py:239-243: curve[::step] once a curve is longer than max_points.
Downsample(curve) ==
    IF Len(curve) > 1000
    THEN LET step == Len(curve) \div 1000
         IN  [k \in 1..((Len(curve) + step - 1) \div step) |-> curve[(k - 1) * step + 1]]
    ELSE curve

TooFewPoints_unguarded(curve1_clean, curve2_clean) == FALSE

\* scoring.py:235.
TooFewPoints(curve1_clean, curve2_clean) ==
    Len(curve1_clean) < 2 \/ Len(curve2_clean) < 2

scale_similarity_unclamped(raw_num, max_distance) ==
    IF raw_num <= 30 * max_distance
    THEN Zero
    ELSE Rat((raw_num - 30 * max_distance) * 100, 60 * max_distance)

\* scoring.py:257-279.  raw_similarity = max(0, raw_num / max_distance) with
\* raw_num = 100 * (max_distance - distance); the result is
\* scaled_similarity.
scale_similarity(raw_num, max_distance) ==
    IF raw_num <= 30 * max_distance
    THEN Zero
    ELSE IF raw_num >= 90 * max_distance
    THEN Percent(100)
    ELSE Rat((raw_num - 30 * max_distance) * 100, 60 * max_distance)

\* scoring.py:218-291.  dtw_ok = FALSE is fastdtw raising (caught at 252).
calculate_curve_similarity(curve1_in, curve2_in, dtw_ok) ==
    LET min_len == Min2(Len(curve1_in), Len(curve2_in))
        curve1 == SubSeq(curve1_in, 1, min_len)
        curve2 == SubSeq(curve2_in, 1, min_len)
        valid_mask == [i \in 1..min_len |-> curve1[i] # 0 /\ curve2[i] # 0]
        curve1_clean == Downsample(Select(curve1, valid_mask))
        curve2_clean == Downsample(Select(curve2, valid_mask))
    IN  IF ~\E i \in 1..min_len : valid_mask[i] THEN Zero
        ELSE IF TooFewPoints(Select(curve1, valid_mask), Select(curve2, valid_mask))
        THEN Zero
        ELSE IF ~dtw_ok THEN Zero
        ELSE LET distance == fastdtw(curve1_clean, curve2_clean)
                 max_distance == 6 * Semitone * Len(curve1_clean)
                 raw_num == 100 * (max_distance - distance)
                 ref_voiced == CountTrue([i \in 1..min_len |-> curve1[i] # 0])
                 both_voiced == CountTrue(valid_mask)
                 scaled == scale_similarity(raw_num, max_distance)
             IN  IF ref_voiced > 0
                 THEN Rat(scaled.num * both_voiced * 111, scaled.den * ref_voiced * 100)
                 ELSE Rat(scaled.num * 111, scaled.den * 100)

\* The pairs of note values the DTW of scoring.py:246-251 hands to its
\* metric (line 249): every reference point against every performance
\* point, for sequences short enough that fastdtw is exact.
DtwMetricCalls(curve1_in, curve2_in) ==
    LET min_len == Min2(Len(curve1_in), Len(curve2_in))
        valid == {i \in 1..min_len : curve1_in[i] # 0 /\ curve2_in[i] # 0}
    IN  IF Cardinality(valid) < 2 THEN {}
        ELSE {<<curve1_in[i], curve2_in[j]>> : i \in valid, j \in valid}
\* ------------------------------------------------------------------ state
VARIABLES
    chunk_size,         \* frames per chunk (scoring.py:149, 356)
    ref_midi_smooth,    \* the engine's reference curve (self.ref_midi_smooth)
    pc,                 \* where calculate_score is: idle, pool, done
    performance_audio,  \* the argument of calculate_score
    task,               \* pool.map: each chunk's task, pending or done
    results,            \* pool.map: each chunk's result, by chunk index
    finished,           \* the chunk indices in the order the workers finished
    perf_f0,            \* calculate_score's locals, <<>> / 0 until assigned
    perf_midi_smooth,
    shift_est,
    perf_midi_shifted,
    dist_calls,         \* the argument pairs the DTW metric was called with
    returned,           \* what calculate_score returned
    raised,             \* whether calculate_score raised to its caller
    failed,             \* the stage that raised inside the call, or "none"
    fn_pc,              \* the pure-function harnesses: input, done
    fn_in,              \* their input
    fn_out,             \* their output
    cache_files,        \* the cache directory: file name -> content
    last_put,           \* per base name, the analysis last written in full
    cache_op            \* the last cache operation: what it saw and returned

scoreVars == <<chunk_size, ref_midi_smooth, pc, performance_audio, task, results,
               finished, perf_f0, perf_midi_smooth, shift_est, perf_midi_shifted,
               dist_calls, returned, raised, failed>>

fnVars == <<fn_pc, fn_in, fn_out>>

cacheVars == <<cache_files, last_put, cache_op>>

vars == <<scoreVars, fnVars, cacheVars>>

\* ------------------------------------------------------------ the engine
\* scoring.py:139-165: the reference curve the constructor computes.
analyze_reference_vocals(reference_audio, size) ==
    LET chunks == SplitChunks(reference_audio, size)
        ref_f0 == Concat([c \in DOMAIN chunks |-> process_audio_chunk(chunks[c], TRUE)[1]])
    IN  get_smooth_pitch_curve(normalize_to_octave(convert_to_midi(ref_f0)))

ZeroResult == [melody_score |-> Zero, final_score |-> Zero]

NoResult == [none |-> TRUE]

Recording(samples) == [cancelled |-> FALSE, samples |-> samples]

\* record_performance returning None (scoring.py:332, 346).
Cancelled == [cancelled |-> TRUE, samples |-> <<>>]

NoOutput == [ok |-> FALSE, f0 |-> <<>>, voiced |-> <<>>]

on_error_reraise == [returned |-> NoResult, raised |-> TRUE]

\* scoring.py:400-402: except Exception returns the zero result.
on_error == [returned |-> ZeroResult, raised |-> FALSE]

merge_in_completion_order(res, order) ==
    Concat([k \in DOMAIN order |-> res[order[k]].f0])

\* scoring.py:367-370: pool.map returns the results in the order of its
\* input, whatever order the workers finished in; np.concatenate joins them.
merge_results(res, order) == Concat([c \in DOMAIN res |-> res[c].f0])

Stages == {"convert", "normalize", "smooth", "xcorr", "shift", "similarity", "dtw", "none"}

StageRank(stage) ==
    CASE stage = "convert" -> 1
      [] stage = "normalize" -> 2
      [] stage = "smooth" -> 3
      [] stage = "xcorr" -> 4
      [] stage = "shift" -> 5
      [] stage = "similarity" -> 6
      [] stage = "dtw" -> 7
      [] stage = "none" -> 8

IdleCall ==
    /\ pc = "idle"
    /\ performance_audio = Cancelled
    /\ task = <<>> /\ results = <<>> /\ finished = <<>>
    /\ perf_f0 = <<>> /\ perf_midi_smooth = <<>> /\ shift_est = 0
    /\ perf_midi_shifted = <<>> /\ dist_calls = {}
    /\ returned = NoResult /\ raised = FALSE /\ failed = "none"

IdleFn == fn_pc = "off" /\ fn_in = <<>> /\ fn_out = <<>>

NoOp == [op |-> "none"]

IdleCache == cache_files = <<>> /\ last_put = <<>> /\ cache_op = NoOp

\* scoring.py:348-367: calculate_score up to handing the chunks to the
\* pool; a cancelled recording (None) returns the zero result at once.
Call(audio) ==
    /\ pc = "idle"
    /\ performance_audio' = audio
    /\ IF audio.cancelled
       THEN /\ pc' = "done"
            /\ returned' = ZeroResult
            /\ UNCHANGED <<task, results>>
       ELSE /\ pc' = "pool"
            /\ task' = [c \in DOMAIN SplitChunks(audio.samples, chunk_size) |-> "pending"]
            /\ results' = [c \in DOMAIN SplitChunks(audio.samples, chunk_size) |-> NoOutput]
            /\ UNCHANGED returned
    /\ UNCHANGED <<chunk_size, ref_midi_smooth, finished, perf_f0, perf_midi_smooth,
                   shift_est, perf_midi_shifted, dist_calls, raised, failed>>
    /\ UNCHANGED <<fnVars, cacheVars>>

\* scoring.py:25-48 run by a pool worker on chunk c.  outcome: "ok",
\* "pyin_error" (librosa.pyin raises: the chunk degrades to zeros) or
\* "error" (the RMS computation of line 27 raises: the task fails).
Worker(c, outcome) ==
    /\ pc = "pool"
    /\ c \in DOMAIN task
    /\ task[c] = "pending"
    /\ task' = [task EXCEPT ![c] = "done"]
    /\ finished' = Append(finished, c)
    /\ results' = [results EXCEPT ![c] =
          IF outcome = "error" THEN NoOutput
          ELSE LET out == process_audio_chunk(
                              SplitChunks(performance_audio.samples, chunk_size)[c],
                              outcome = "ok")
               IN  [ok |-> TRUE, f0 |-> out[1], voiced |-> out[2]]]
    /\ UNCHANGED <<chunk_size, ref_midi_smooth, pc, performance_audio, perf_f0,
                   perf_midi_smooth, shift_est, perf_midi_shifted, dist_calls,
                   returned, raised, failed>>
    /\ UNCHANGED <<fnVars, cacheVars>>

\* scoring.py:393-398: the similarity stage and the result returned.
ScoreStage(ref, smooth, est, shifted, fail) ==
    LET rank == StageRank(fail)
        score == calculate_curve_similarity(ref, shifted, fail # "dtw")
        end == IF rank <= 6 THEN on_error
               ELSE [returned |-> [melody_score |-> score, final_score |-> score],
                     raised |-> FALSE]
    IN  [perf_midi_smooth |-> IF rank > 3 THEN smooth ELSE <<>>,
         shift_est |-> IF rank > 4 THEN est ELSE 0,
         perf_midi_shifted |-> IF rank > 5 THEN shifted ELSE <<>>,
         dist_calls |-> IF rank > 7 THEN DtwMetricCalls(ref, shifted) ELSE {},
         returned |-> end.returned,
         raised |-> end.raised,
         failed |-> fail]

\* scoring.py:387-391.
ShiftStage(ref, smooth, est, fail) ==
    ScoreStage(ref, smooth, est, apply_shift(smooth, est), fail)

\* scoring.py:384.
AlignStage(ref, smooth, fail) ==
    ShiftStage(ref, smooth, estimate_shift_via_xcorr(ref, smooth), fail)

\* scoring.py:372-382: the all-silent short cut, else the curve processor.
CurveStage(ref, f0, fail) ==
    IF \A i \in DOMAIN f0 : f0[i] = 0
    THEN [perf_midi_smooth |-> <<>>, shift_est |-> 0, perf_midi_shifted |-> <<>>,
          dist_calls |-> {}, returned |-> ZeroResult, raised |-> FALSE,
          failed |-> "none"]
    ELSE AlignStage(ref, get_smooth_pitch_curve(normalize_to_octave(convert_to_midi(f0))),
                    fail)

\* scoring.py:367-402: pool.map returns once every task is done (and raises
\* if one failed); the rest of calculate_score.  fail names the stage that
\* raises in this call, "none" when none does.  np.concatenate of an empty
\* list of results raises ValueError.
Analyze(fail) ==
    /\ pc = "pool"
    /\ \A c \in DOMAIN task : task[c] = "done"
    /\ IF (\A c \in DOMAIN results : results[c].ok) /\ Len(results) > 0
       THEN /\ perf_f0' = merge_results(results, finished)
            /\ \E out \in {CurveStage(ref_midi_smooth, merge_results(results, finished), fail)} :
                  /\ perf_midi_smooth' = out.perf_midi_smooth
                  /\ shift_est' = out.shift_est
                  /\ perf_midi_shifted' = out.perf_midi_shifted
                  /\ dist_calls' = out.dist_calls
                  /\ returned' = out.returned
                  /\ raised' = out.raised
                  /\ failed' = out.failed
       ELSE /\ perf_f0' = <<>>
            /\ returned' = on_error.returned
            /\ raised' = on_error.raised
            /\ failed' = "extract"
            /\ UNCHANGED <<perf_midi_smooth, shift_est, perf_midi_shifted, dist_calls>>
    /\ pc' = "done"
    /\ UNCHANGED <<chunk_size, ref_midi_smooth, performance_audio, task, results, finished>>
    /\ UNCHANGED <<fnVars, cacheVars>>

\* The caller takes the result; the engine is ready for the next call.
Return ==
    /\ pc = "done"
    /\ pc' = "idle"
    /\ performance_audio' = Cancelled
    /\ task' = <<>> /\ results' = <<>> /\ finished' = <<>>
    /\ perf_f0' = <<>> /\ perf_midi_smooth' = <<>> /\ shift_est' = 0
    /\ perf_midi_shifted' = <<>> /\ dist_calls' = {}
    /\ returned' = NoResult /\ raised' = FALSE /\ failed' = "none"
    /\ UNCHANGED <<chunk_size, ref_midi_smooth>>
    /\ UNCHANGED <<fnVars, cacheVars>>

Outcomes == {"ok", "pyin_error", "error"}

\* The recordings and reference tracks the engine is run on.
PerfFrames == {Quiet, Hum, SungLow}

RefFrames == {Quiet, SungLow, SungHigh}

Performances == {Cancelled} \cup {Recording(a) : a \in SeqsOf(PerfFrames, 0, MaxPerfLen)}

References == SeqsOf(RefFrames, 1, MaxRefLen)

Init ==
    /\ chunk_size = ChunkLen
    /\ \E reference_audio \in References :
          ref_midi_smooth = analyze_reference_vocals(reference_audio, ChunkLen)
    /\ IdleCall /\ IdleFn /\ IdleCache

Next ==
    \/ \E audio \in Performances : Call(audio)
    \/ \E c \in 1..MaxPerfLen, outcome \in Outcomes : Worker(c, outcome)
    \/ \E fail \in Stages : Analyze(fail)
    \/ Return

Spec == Init /\ [][Next]_vars
\* ------------------------------------------------- long single-chunk runs
\* The same engine on curves long enough for the window-5 smoothing: every
\* frame sung, LongLen frames, one chunk.
LongFrames == {SungLow, SungHigh}

LongReferences == [1..LongLen -> LongFrames]

LongPerformances == {Cancelled} \cup {Recording(a) : a \in [1..LongLen -> LongFrames]}

InitLong ==
    /\ chunk_size = LongLen
    /\ \E reference_audio \in LongReferences :
          ref_midi_smooth = analyze_reference_vocals(reference_audio, LongLen)
    /\ IdleCall /\ IdleFn /\ IdleCache

NextLong ==
    \/ \E audio \in LongPerformances : Call(audio)
    \/ \E outcome \in Outcomes : Worker(1, outcome)
    \/ \E fail \in Stages : Analyze(fail)
    \/ Return

SpecLong == InitLong /\ [][NextLong]_vars

\* ------------------------------------------- the curve processor, alone
\* scoring.py:376-382 (and 163-165): a pitch series through note
\* conversion, octave folding and smoothing.
ProcessCurve ==
    /\ fn_pc = "input"
    /\ fn_pc' = "done"
    /\ fn_out' = [norm |-> normalize_to_octave(convert_to_midi(fn_in)),
                  smooth |-> get_smooth_pitch_curve(
                                 normalize_to_octave(convert_to_midi(fn_in)))]
    /\ UNCHANGED <<fn_in, scoreVars, cacheVars>>

IdleEngine == chunk_size = ChunkLen /\ ref_midi_smooth = <<>> /\ IdleCall

PitchSeries == SeqsOf({0, 131, 494}, 1, MaxCurveLen)

InitSmooth ==
    /\ fn_pc = "input"
    /\ fn_in \in PitchSeries
    /\ fn_out = <<>>
    /\ IdleEngine /\ IdleCache

NextSmooth == ProcessCurve

SpecSmooth == InitSmooth /\ [][NextSmooth]_vars

\* --------------------------------------- the alignment estimator, alone
\* A copy of curve delayed by k frames (advanced by -k when k < 0), of the
\* same length: frames pushed past either end are lost, the frames left
\* open are silent.
ShiftedCopy(curve, k) ==
    [i \in DOMAIN curve |-> IF 1 <= i - k /\ i - k <= Len(curve) THEN curve[i - k] ELSE 0]

\* scoring.py:293-306 on a curve and its shifted copy.
EstimateShift ==
    /\ fn_pc = "input"
    /\ fn_pc' = "done"
    /\ fn_out' = [copy |-> ShiftedCopy(fn_in.curve, fn_in.k),
                  est |-> estimate_shift_via_xcorr(fn_in.curve,
                                                   ShiftedCopy(fn_in.curve, fn_in.k))]
    /\ UNCHANGED <<fn_in, scoreVars, cacheVars>>

AlignCurves == SeqsOf({0, 60 * Semitone, 71 * Semitone}, 1, MaxAlignLen)

InitAlign ==
    /\ fn_pc = "input"
    /\ \E curve \in AlignCurves : \E k \in (1 - Len(curve))..(Len(curve) - 1) :
          fn_in = [curve |-> curve, k |-> k]
    /\ fn_out = <<>>
    /\ IdleEngine /\ IdleCache

NextAlign == EstimateShift

SpecAlign == InitAlign /\ [][NextAlign]_vars

\* ------------------------------------------------------ reference cache
\* A reference path: Path(p).name is base + suffix, Path(p).stem is base.
RefPaths == [base : {"x", "y"}, suffix : {".wav", ".mp3"}]

\* scoring.py:77-81: the cache file of a reference, named by the stem.
get_cache_path(reference_path) == <<reference_path.base>>

CacheFileNames == {get_cache_path(p) : p \in RefPaths}

\* scoring.py:167-173: the analysis the constructor caches.
AnalysisOf(reference_audio) ==
    LET f0 == process_audio_chunk(reference_audio, TRUE)[1]
    IN  [reference_audio |-> reference_audio,
         ref_f0 |-> f0,
         ref_midi |-> convert_to_midi(f0),
         ref_midi_norm |-> normalize_to_octave(convert_to_midi(f0)),
         ref_midi_smooth |-> analyze_reference_vocals(reference_audio, Len(reference_audio))]

Analyses == {AnalysisOf(<<SungHigh>>), AnalysisOf(<<SungLow, Quiet>>)}

NoData == [none |-> TRUE]

\* pickle.dump writes a stream that ends with a STOP opcode; pickle.load
\* raises on a stream that does not.
pickle_dumps(data) ==
    <<[op |-> "PROTO", arg |-> NoData], [op |-> "DATA", arg |-> data],
      [op |-> "STOP", arg |-> NoData]>>

pickle_loads_ok(bytes) ==
    /\ Len(bytes) = 3
    /\ bytes[1].op = "PROTO" /\ bytes[2].op = "DATA" /\ bytes[3].op = "STOP"

Absent == [exists |-> FALSE, bytes |-> <<>>]

Junk == <<[op |-> "JUNK", arg |-> NoData]>>

\* scoring.py:99-106.  progress: -1 when open() raises (the file is left as
\* it was), 0..2 when the write raises after that many parts of the stream
\* (open(.., 'wb') has truncated the file), 3 when the dump completes.  The
\* except clause swallows the error.
CacheAnalysis(reference_path, analysis_data, progress) ==
    /\ cache_op' = [op |-> "put", path |-> reference_path, progress |-> progress,
                    raised |-> FALSE]
    /\ IF progress = -1
       THEN UNCHANGED cache_files
       ELSE cache_files' = [cache_files EXCEPT ![get_cache_path(reference_path)] =
                [exists |-> TRUE,
                 bytes |-> SubSeq(pickle_dumps(analysis_data), 1, progress)]]
    /\ IF progress = 3
       THEN last_put' = [last_put EXCEPT ![reference_path.base] =
                [some |-> TRUE, data |-> analysis_data, path |-> reference_path]]
       ELSE UNCHANGED last_put
    /\ UNCHANGED <<scoreVars, fnVars>>

\* scoring.py:83-97.  access: "ok"; "open_error" when open() raises on an
\* existing file; "stat_error" when the stat behind cache_path.exists()
\* fails with an error pathlib does not take for absence (it re-raises all
\* but ENOENT, ENOTDIR, EBADF and ELOOP: a file name too long, a directory
\* without search permission).  exists() is called outside the try, so
\* that error leaves the method; a missing file and any error of open or
\* pickle.load return None.
GetCachedAnalysis(reference_path, access) ==
    /\ LET entry == cache_files[get_cache_path(reference_path)]
           loaded == access = "ok" /\ entry.exists /\ pickle_loads_ok(entry.bytes)
       IN  cache_op' = [op |-> "get", path |-> reference_path, entry |-> entry,
                        access |-> access,
                        found |-> loaded,
                        data |-> IF loaded THEN entry.bytes[2].arg ELSE NoData,
                        raised |-> (access = "stat_error")]
    /\ UNCHANGED <<cache_files, last_put, scoreVars, fnVars>>

\* The file system damages a cache file (a torn or overwritten file).
Damage(name) ==
    /\ cache_files[name].exists
    /\ cache_files' = [cache_files EXCEPT ![name] = [exists |-> TRUE, bytes |-> Junk]]
    /\ UNCHANGED <<last_put, cache_op, scoreVars, fnVars>>

InitCache ==
    /\ cache_files = [name \in CacheFileNames |-> Absent]
    /\ last_put = [base \in {p.base : p \in RefPaths} |->
                     [some |-> FALSE, data |-> NoData, path |-> NoData]]
    /\ cache_op = NoOp
    /\ IdleEngine /\ IdleFn

NextCache ==
    \/ \E p \in RefPaths, a \in Analyses, progress \in -1..3 : CacheAnalysis(p, a, progress)
    \/ \E p \in RefPaths, access \in {"ok", "open_error", "stat_error"} :
          GetCachedAnalysis(p, access)
    \/ \E name \in CacheFileNames : Damage(name)

SpecCache == InitCache /\ [][NextCache]_vars

\* ============================================================== claims
Done == pc = "done"

Scored == Done /\ returned # NoResult

\* The chunks of the recording being scored.
PerfChunks == SplitChunks(performance_audio.samples, chunk_size)

\* The number of frames at which both curves are nonzero, over their shared
\* length.
JointlyVoiced(curve1, curve2) ==
    Cardinality({i \in 1..Min2(Len(curve1), Len(curve2)) :
                    curve1[i] # 0 /\ curve2[i] # 0})

VoicedCount(curve) == Cardinality({i \in DOMAIN curve : curve[i] # 0})

\* C1: calculate_score never raises to its caller: every finished call
\* returned a result with both fields melody_score and final_score, and the
\* result is the zero result whenever a stage of the call raised (a worker
\* task, note conversion, folding, smoothing, shift estimation, shift
\* application, similarity, or the DTW inside it).
C1_NeverPropagates ==
    Done =>
        /\ raised = FALSE
        /\ DOMAIN returned = {"melody_score", "final_score"}
        /\ (failed # "none" => returned = ZeroResult)

\* C1 witness: a call in which shift estimation raised has returned zero.
C1_Witness ==
    /\ Done /\ failed = "xcorr" /\ perf_midi_smooth # <<>>
    /\ raised = FALSE /\ returned = ZeroResult

\* C2 (as claimed): both fields of every returned result are in [0, 100]
\* and equal.
C2_ScoreWithin100 ==
    Scored =>
        /\ returned.melody_score = returned.final_score
        /\ RatLe(Zero, returned.final_score)
        /\ RatLe(returned.final_score, Percent(100))

\* C2 (amended): both fields of every returned result are in [0, 111]
\* (100 times the 1.11 boost) and equal.
C2_ScoreWithin111 ==
    Scored =>
        /\ returned.melody_score = returned.final_score
        /\ RatLe(Zero, returned.final_score)
        /\ RatLe(returned.final_score, Percent(111))

\* C2 witness: a performance other than the reference scored above 100.
C2_Witness ==
    /\ Scored /\ failed = "none"
    /\ perf_midi_smooth # ref_midi_smooth
    /\ RatLt(Percent(100), returned.final_score)
    /\ RatLe(returned.final_score, Percent(111))

\* C3 (as claimed): when the smoothed performance curve equals the
\* reference curve and the estimated shift is zero, the score exceeds 90.
C3_IdenticalAbove90 ==
    (Done /\ failed = "none" /\ perf_midi_smooth = ref_midi_smooth /\ shift_est = 0)
        => RatLt(Percent(90), returned.final_score)

\* C3 (amended): when the smoothed performance curve equals the reference
\* curve and has at least two voiced frames, the estimated shift is zero
\* and the score exceeds 90.
C3_IdenticalTwoVoicedAbove90 ==
    (Done /\ failed = "none" /\ perf_midi_smooth = ref_midi_smooth
          /\ VoicedCount(ref_midi_smooth) >= 2)
        => /\ shift_est = 0
           /\ RatLt(Percent(90), returned.final_score)

\* C3 witness: an identical performance scored above 100 (the boost is not
\* clamped).
C3_Witness ==
    /\ Done /\ failed = "none" /\ perf_midi_smooth = ref_midi_smooth
    /\ VoicedCount(ref_midi_smooth) >= 2
    /\ shift_est = 0
    /\ RatLt(Percent(100), returned.final_score)

\* C4: a call that ran to the similarity stage with fewer than two frames
\* at which the reference and the shifted performance are both nonzero
\* returned exactly zero, and so did a call whose merged pitch series is
\* entirely zero.
C4_NoOverlapScoresZero ==
    /\ (Done /\ failed = "none" /\ perf_midi_shifted # <<>>
             /\ JointlyVoiced(ref_midi_smooth, perf_midi_shifted) < 2)
          => returned = ZeroResult
    /\ (Done /\ failed = "none" /\ perf_f0 # <<>> /\ \A i \in DOMAIN perf_f0 : perf_f0[i] = 0)
          => returned = ZeroResult

\* C4 witness: a voiced performance that meets the reference in exactly
\* one frame has been scored zero.
C4_Witness ==
    /\ Done /\ failed = "none" /\ perf_midi_shifted # <<>>
    /\ JointlyVoiced(ref_midi_smooth, perf_midi_shifted) = 1
    /\ returned = ZeroResult

\* C9: whenever the merged pitch series has been assigned, every chunk's
\* task was done, each chunk's output is what process_audio_chunk gives
\* for that chunk (or all zeros, as long as the chunk, when pyin raised),
\* and the merged series is the outputs joined in chunk order.
C9_MergeKeepsChunkOrder ==
    (Done /\ ~performance_audio.cancelled /\ failed # "extract") =>
        /\ \A c \in DOMAIN task : task[c] = "done"
        /\ \A c \in DOMAIN results :
              \/ results[c].f0 = process_audio_chunk(PerfChunks[c], TRUE)[1]
              \/ results[c].f0 = Zeros(Len(PerfChunks[c]))
        /\ perf_f0 = Concat([c \in DOMAIN PerfChunks |-> results[c].f0])
        /\ Len(perf_f0) = Len(performance_audio.samples)

\* C9 witness: the second chunk finished first, one chunk degraded to
\* zeros, and the voiced output of the other is in the merged series.
C9_Witness ==
    /\ Done /\ ~performance_audio.cancelled /\ failed = "none"
    /\ finished = <<2, 1>>
    /\ \E c \in DOMAIN results :
          results[c].f0 # process_audio_chunk(PerfChunks[c], TRUE)[1]
    /\ \E i \in DOMAIN perf_f0 : perf_f0[i] # 0
    /\ results[1].f0 # results[2].f0

\* C10: the shifted performance curve has the length L of the smoothed one
\* and holds at index i the entry i - shift_est of it when that index is
\* within the curve, else 0.
C10_ShiftZeroFills ==
    (Done /\ perf_midi_shifted # <<>>) =>
        /\ Len(perf_midi_shifted) = Len(perf_midi_smooth)
        /\ \A i \in DOMAIN perf_midi_shifted :
              perf_midi_shifted[i] =
                 IF 1 <= i - shift_est /\ i - shift_est <= Len(perf_midi_smooth)
                 THEN perf_midi_smooth[i - shift_est]
                 ELSE 0

\* C10 witness: a performance shorter than the reference was shifted by at
\* least its own length.
C10_Witness ==
    /\ Done /\ perf_midi_shifted # <<>>
    /\ Len(perf_midi_smooth) < Len(ref_midi_smooth)
    /\ Abs(shift_est) >= Len(perf_midi_smooth)

\* C8 (as claimed): for every pair of note values the DTW hands to its
\* metric, the distance is symmetric, 0 for equal values and between 0 and
\* 6 semitones; and distance(0, 6) = 6, distance(0, 11) = 1.
C8_DistanceWithin0And6 ==
    /\ \A p \in dist_calls :
          LET d == circular_semitone_distance(p[1], p[2])
          IN  /\ d = circular_semitone_distance(p[2], p[1])
              /\ (p[1] = p[2] => d = 0)
              /\ 0 <= d
              /\ d <= 6 * Semitone
    /\ circular_semitone_distance(0, 6 * Semitone) = 6 * Semitone
    /\ circular_semitone_distance(0, 11 * Semitone) = Semitone

FnDone == fn_pc = "done"

\* lo..hi is a maximal run of nonzero entries of curve.
IsVoicedRun(curve, lo, hi) ==
    /\ lo <= hi
    /\ \A i \in lo..hi : curve[i] # 0
    /\ (lo = 1 \/ curve[lo - 1] = 0)
    /\ (hi = Len(curve) \/ curve[hi + 1] = 0)

\* C7: the smoothed curve has the length of the folded curve (entries 0 or
\* in [60, 72)), is zero exactly where the folded curve is zero, leaves
\* voiced runs shorter than 5 frames unchanged, and on every voiced run
\* equals what smoothing that run by itself gives.
C7_SmoothingKeepsRuns ==
    FnDone =>
        LET curve == fn_out.norm
            out == fn_out.smooth
        IN  /\ \A i \in DOMAIN curve :
                  curve[i] = 0 \/ (60 * Semitone <= curve[i] /\ curve[i] < 72 * Semitone)
            /\ Len(out) = Len(curve)
            /\ \A i \in DOMAIN curve : (out[i] = 0) <=> (curve[i] = 0)
            /\ \A lo \in DOMAIN curve : \A hi \in DOMAIN curve :
                  IsVoicedRun(curve, lo, hi) =>
                      /\ (hi - lo + 1 < 5 => SubSeq(out, lo, hi) = SubSeq(curve, lo, hi))
                      /\ SubSeq(out, lo, hi) = get_smooth_pitch_curve(SubSeq(curve, lo, hi))

\* C7 witness: a curve with a silence gap beside a voiced run that the
\* window-5 filter changed.
C7_Witness ==
    /\ FnDone
    /\ \E i \in DOMAIN fn_out.norm : fn_out.norm[i] = 0
    /\ \E lo \in DOMAIN fn_out.norm : \E hi \in DOMAIN fn_out.norm :
          /\ IsVoicedRun(fn_out.norm, lo, hi)
          /\ hi - lo + 1 >= 7
          /\ SubSeq(fn_out.smooth, lo, hi) # SubSeq(fn_out.norm, lo, hi)

\* C5 (as claimed): for every curve and every k smaller than its length,
\* the estimate for the curve and its copy shifted by k undoes the shift:
\* it is -k.
C5_RecoversEveryShift == FnDone => fn_out.est = -fn_in.k

\* C5 (amended): when the curve has a voiced frame and the shift pushes no
\* voiced frame past an end of the curve, the estimate is -k, and shifting
\* the copy by the estimate gives the curve back.
C5_RecoversLosslessShift ==
    (FnDone /\ VoicedCount(fn_in.curve) > 0
            /\ VoicedCount(fn_out.copy) = VoicedCount(fn_in.curve))
        => /\ fn_out.est = -fn_in.k
           /\ apply_shift(fn_out.copy, fn_out.est) = fn_in.curve

\* C5 witness: a voiced curve delayed by two frames without loss, and the
\* estimate -2.
C5_Witness ==
    /\ FnDone /\ fn_in.k = 2
    /\ VoicedCount(fn_in.curve) > 1
    /\ VoicedCount(fn_out.copy) = VoicedCount(fn_in.curve)
    /\ fn_out.est = -2

\* C6 (as claimed): a get never raises and returns either nothing or the
\* analysis last written in full under the reference's base name, whatever
\* suffix the path had; it returns nothing when the file is absent, is not
\* a complete pickle stream or cannot be read; and a write never raises.
C6_CacheNeverRaises ==
    /\ cache_op.op = "put" => cache_op.raised = FALSE
    /\ cache_op.op = "get" =>
          /\ cache_op.raised = FALSE
          /\ cache_op.found =>
                /\ last_put[cache_op.path.base].some
                /\ cache_op.data = last_put[cache_op.path.base].data
          /\ (~cache_op.entry.exists \/ ~pickle_loads_ok(cache_op.entry.bytes)
                \/ cache_op.access # "ok") => ~cache_op.found
====
